---- MODULE Spec2Model ----
(***************************************************************************)
(* derive_builder: #[derive(Builder)] turns an annotated struct into a     *)
(* builder struct with one Option slot per field, setter methods and a     *)
(* build method (src/derive_builder/src/lib.rs).                           *)
(*                                                                         *)
(* The model has two halves.  The generation half is builder_for_struct:   *)
(* the struct-level and field-level #[builder(...)] directives are         *)
(* resolved into per-field options and pushed into the builder artifact.   *)
(* The runtime half interprets that artifact the way the generated code    *)
(* documented in lib.rs behaves: setters store Some(value), build          *)
(* evaluates the initializers in declaration order.                        *)
(***************************************************************************)
EXTENDS Integers, Sequences, FiniteSets, TLC

\* Number of fields of the struct the builder is derived for.
NumFields == 3
\* Most #[builder(...)] directives written on one struct (SpecResolve).
MaxDirectives == 2

Fields == 1..NumFields

(***************************************************************************)
(* Values.  A field has the type of the doc example's `ipsum`; only two    *)
(* distinct values are needed to tell writes apart.  "None" is the unset   *)
(* Option slot.                                                            *)
(***************************************************************************)
Values == {"v", "w"}
None == "None"
\* Default::default() of the field type.
TypeDefault == "zero"
\* Arguments of a fallible setter: values of a wider type.
TryInputs == {"v16", "w16", "big16"}

\* TryInto: a wide value converts when it fits the field type.
TryInto(x) ==
  CASE x = "v16" -> [ok |-> TRUE, value |-> "v"]
    [] x = "w16" -> [ok |-> TRUE, value |-> "w"]
    [] OTHER -> [ok |-> FALSE, value |-> None]

(***************************************************************************)
(* Directives.  Every axis is "unset" when the attribute is not written.   *)
(***************************************************************************)
Unset == "unset"
Axes == {"pattern", "skip", "prefix", "into", "vis", "default", "try_setter"}

\* The values the resolution specification writes on each axis.
AxisValues(ax) ==
  CASE ax = "pattern" -> {"owned", "mutable", "immutable"}
    [] ax = "skip" -> {"true", "false"}
    [] ax = "prefix" -> {"with", "set"}
    [] ax = "into" -> {"true", "false"}
    [] ax = "vis" -> {"public", "private"}
    [] ax = "default" -> {"delegate", "42"}
    [] ax = "try_setter" -> {"true"}

ValidateFns == {"always_fail", "check_first"}

NoDirectives == [ax \in Axes |-> Unset]

\* What a setter does when nothing is configured.
BuiltinDefaults ==
  [pattern |-> "mutable", skip |-> "false", prefix |-> "", into |-> "false",
   vis |-> "public", default |-> "none", try_setter |-> "false"]

VARIABLES
  ast,      \* the parsed struct: [attrs, validate, fields]
  pc,       \* "parsed" before the derive ran, "derived" after
  f_opts,   \* builder_for_struct's resolved options of each field
  builder,  \* the derived artifact
  slots,    \* the builder value the caller holds: field -> None or a value
  alive,    \* FALSE once that builder value was moved out
  res       \* outcome of the last call on the builder

vars == <<ast, pc, f_opts, builder, slots, alive, res>>

(***************************************************************************)
(* Generation: options.  struct_options_from yields the struct's own       *)
(* options and the defaults its fields start from; field_options_from      *)
(* lays a field's directives over those defaults.                          *)
(***************************************************************************)

\* One option set laid over another: a written directive wins, an unset
\* one leaves the base value.
ApplyDirectives(base, dirs) ==
  [ax \in Axes |-> IF dirs[ax] = Unset THEN base[ax] ELSE dirs[ax]]

struct_options_from(a) ==
  LET field_defaults == ApplyDirectives(BuiltinDefaults, a.attrs)
  IN  [opts |-> [pattern |-> field_defaults.pattern, validate |-> a.validate],
       field_defaults |-> field_defaults]

field_options_from(f, field_defaults) ==
  [ident |-> f.ident, opts |-> ApplyDirectives(field_defaults, f.attrs)]

(***************************************************************************)
(* Generation: the pieces pushed into the artifact for one field.          *)
(***************************************************************************)

\* The builder's storage field: Option<T> under the field's own name.
as_builder_field(fo) == [ident |-> fo.ident, ty |-> "Option"]

\* The setter; `enabled` is false when the setter is skipped, and a
\* disabled setter emits no method.
as_setter(fo) ==
  [enabled |-> fo.opts.skip = "false",
   ident |-> fo.ident,
   prefix |-> fo.opts.prefix,
   pattern |-> fo.opts.pattern,
   vis |-> fo.opts.vis,
   generic |-> fo.opts.into = "true",
   try_setter |-> fo.opts.try_setter = "true"]

\* The field's initializer inside build.
as_initializer(fo) ==
  [ident |-> fo.ident,
   setter_enabled |-> fo.opts.skip = "false",
   default |-> fo.opts.default]

as_builder(opts) == [pattern |-> opts.pattern, fields |-> <<>>, setters |-> <<>>]

as_build_method(opts) ==
  [pattern |-> opts.pattern, validate |-> opts.validate, initializers |-> <<>>]

push_field(b, bf) == [b EXCEPT !.fields = Append(@, bf)]
push_setter_fn(b, st) == [b EXCEPT !.setters = Append(@, st)]
push_initializer(bfn, init) == [bfn EXCEPT !.initializers = Append(@, init)]
push_build_fn(b, bfn) ==
  [pattern |-> b.pattern, fields |-> b.fields, setters |-> b.setters,
   build_fn |-> bfn]

\* Variant: the fields do not inherit the struct's defaults.
RECURSIVE for_fields_no_inherit(_, _, _)
for_fields_no_inherit(fields, field_defaults, acc) ==
  IF fields = <<>> THEN acc
  ELSE LET fo == field_options_from(Head(fields), BuiltinDefaults)
       IN  for_fields_no_inherit(Tail(fields), field_defaults,
             [builder |-> push_setter_fn(push_field(acc.builder, as_builder_field(fo)),
                                         as_setter(fo)),
              build_fn |-> push_initializer(acc.build_fn, as_initializer(fo)),
              f_opts |-> Append(acc.f_opts, fo.opts)])

\* Variant: every setter is made from the struct's defaults alone.
RECURSIVE for_fields_struct_setter(_, _, _)
for_fields_struct_setter(fields, field_defaults, acc) ==
  IF fields = <<>> THEN acc
  ELSE LET fo == field_options_from(Head(fields), field_defaults)
           so == [ident |-> fo.ident,
                  opts |-> [fo.opts EXCEPT !.pattern = field_defaults.pattern]]
       IN  for_fields_struct_setter(Tail(fields), field_defaults,
             [builder |-> push_setter_fn(push_field(acc.builder, as_builder_field(fo)),
                                         as_setter(so)),
              build_fn |-> push_initializer(acc.build_fn, as_initializer(fo)),
              f_opts |-> Append(acc.f_opts, fo.opts)])

\* The `for f in fields` loop: acc is <<builder, build_fn, f_opts so far>>.
RECURSIVE for_fields(_, _, _)
for_fields(fields, field_defaults, acc) ==
  IF fields = <<>> THEN acc
  ELSE LET fo == field_options_from(Head(fields), field_defaults)
       IN  for_fields(Tail(fields), field_defaults,
             [builder |-> push_setter_fn(push_field(acc.builder, as_builder_field(fo)),
                                         as_setter(fo)),
              build_fn |-> push_initializer(acc.build_fn, as_initializer(fo)),
              f_opts |-> Append(acc.f_opts, fo.opts)])

\* builder_for_struct on a braced struct.
builder_for_struct(a) ==
  LET so == struct_options_from(a)
      done == for_fields(a.fields, so.field_defaults,
                [builder |-> as_builder(so.opts),
                 build_fn |-> as_build_method(so.opts),
                 f_opts |-> <<>>])
  IN  [builder |-> push_build_fn(done.builder, done.build_fn),
       f_opts |-> done.f_opts]

NoBuilder == [pattern |-> "", fields |-> <<>>, setters |-> <<>>,
              build_fn |-> [pattern |-> "", validate |-> Unset, initializers |-> <<>>]]

(***************************************************************************)
(* Runtime: what the generated code does.  The model follows the builder   *)
(* value the caller goes on with: the receiver itself under the mutable    *)
(* pattern, the value a setter returns under owned and immutable.          *)
(***************************************************************************)

NoErr == [kind |-> "", field |-> 0]
\* "<field> must be initialized"
MissingField(i) == [kind |-> "must be initialized", field |-> i]
ValidationErr(msg) == [kind |-> msg, field |-> 0]
ConversionErr == [kind |-> "conversion failed", field |-> 0]
HelperErr == [kind |-> "helper failed", field |-> 0]

\* An explicit default expression, evaluated inside build on builder state
\* s.  "42" is a literal; "helper" is `self.default_helper()?`, a private
\* method that reads the first slot and may fail.
EvalDefault(expr, s) ==
  IF expr = "helper"
    THEN IF s[1] = "w" THEN [ok |-> TRUE, value |-> "dolor w", err |-> NoErr]
         ELSE [ok |-> FALSE, value |-> None, err |-> HelperErr]
  ELSE [ok |-> TRUE, value |-> expr, err |-> NoErr]

\* Variant: the default is consulted before the slot.
eval_initializer_default_first(init, s) ==
  IF init.default = "delegate"
    THEN [ok |-> TRUE, value |-> TypeDefault, err |-> NoErr]
  ELSE IF init.default # "none"
    THEN EvalDefault(init.default, s)
  ELSE IF init.setter_enabled /\ s[init.ident] # None
    THEN [ok |-> TRUE, value |-> s[init.ident], err |-> NoErr]
  ELSE IF init.setter_enabled
    THEN [ok |-> FALSE, value |-> None, err |-> MissingField(init.ident)]
  ELSE [ok |-> TRUE, value |-> TypeDefault, err |-> NoErr]

\* Variant: a skipped field always takes Default::default().
eval_initializer_type_default(init, s) ==
  IF init.setter_enabled /\ s[init.ident] # None
    THEN [ok |-> TRUE, value |-> s[init.ident], err |-> NoErr]
  ELSE IF ~init.setter_enabled \/ init.default = "delegate"
    THEN [ok |-> TRUE, value |-> TypeDefault, err |-> NoErr]
  ELSE IF init.default # "none"
    THEN EvalDefault(init.default, s)
  ELSE [ok |-> FALSE, value |-> None, err |-> MissingField(init.ident)]

\* Variant: a field without a default is required, skipped or not.
eval_initializer_skip_required(init, s) ==
  IF init.setter_enabled /\ s[init.ident] # None
    THEN [ok |-> TRUE, value |-> s[init.ident], err |-> NoErr]
  ELSE IF init.default = "delegate"
    THEN [ok |-> TRUE, value |-> TypeDefault, err |-> NoErr]
  ELSE IF init.default # "none"
    THEN EvalDefault(init.default, s)
  ELSE [ok |-> FALSE, value |-> None, err |-> MissingField(init.ident)]

\* One field of the struct literal inside build.
eval_initializer(init, s) ==
  IF init.setter_enabled /\ s[init.ident] # None
    THEN [ok |-> TRUE, value |-> s[init.ident], err |-> NoErr]
  ELSE IF init.default = "delegate"
    THEN [ok |-> TRUE, value |-> TypeDefault, err |-> NoErr]
  ELSE IF init.default # "none"
    THEN EvalDefault(init.default, s)
  ELSE IF init.setter_enabled
    THEN [ok |-> FALSE, value |-> None, err |-> MissingField(init.ident)]
  ELSE [ok |-> TRUE, value |-> TypeDefault, err |-> NoErr]

\* Variant: the initializers run from the last field to the first.
RECURSIVE initialize_reversed(_, _, _)
initialize_reversed(inits, s, rec) ==
  IF inits = <<>> THEN [ok |-> TRUE, record |-> rec, err |-> NoErr]
  ELSE LET r == eval_initializer(inits[Len(inits)], s)
       IN  IF r.ok
             THEN initialize_reversed(SubSeq(inits, 1, Len(inits) - 1), s,
                                      <<r.value>> \o rec)
           ELSE [ok |-> FALSE, record |-> <<>>, err |-> r.err]

\* The struct literal: the initializers run in declaration order and the
\* first `?` that fails returns from build.
RECURSIVE initialize(_, _, _)
initialize(inits, s, rec) ==
  IF inits = <<>> THEN [ok |-> TRUE, record |-> rec, err |-> NoErr]
  ELSE LET r == eval_initializer(Head(inits), s)
       IN  IF r.ok THEN initialize(Tail(inits), s, Append(rec, r.value))
           ELSE [ok |-> FALSE, record |-> <<>>, err |-> r.err]

\* The validator functions a struct may name in build_fn(validate = ...).
validate(fn, s) ==
  CASE fn = "always_fail" -> [ok |-> FALSE, err |-> ValidationErr("always fails")]
    [] fn = "check_first" ->
         IF s[1] = "w" THEN [ok |-> FALSE, err |-> ValidationErr("Try harder")]
         ELSE [ok |-> TRUE, err |-> NoErr]
    [] OTHER -> [ok |-> TRUE, err |-> NoErr]

\* Variant: the validator's result is dropped.
build_unvalidated(bfn, s) ==
  LET r == initialize(bfn.initializers, s, <<>>)
  IN  [ok |-> r.ok, record |-> r.record, err |-> r.err,
       validated |-> r.ok /\ bfn.validate # Unset]

\* Variant: the validator is called on entry, before any initializer.
build_validate_first(bfn, s) ==
  LET r == initialize(bfn.initializers, s, <<>>)
      v == validate(bfn.validate, s)
      called == bfn.validate # Unset
  IN  IF ~v.ok
        THEN [ok |-> FALSE, record |-> <<>>, err |-> v.err, validated |-> called]
      ELSE [ok |-> r.ok, record |-> r.record, err |-> r.err, validated |-> called]

\* The generated build method on builder state s; `validated` tells
\* whether the call reached the validator.
build(bfn, s) ==
  LET r == initialize(bfn.initializers, s, <<>>)
      v == validate(bfn.validate, s)
      called == bfn.validate # Unset
  IN  IF ~r.ok
        THEN [ok |-> FALSE, record |-> <<>>, err |-> r.err, validated |-> FALSE]
      ELSE IF ~v.ok
        THEN [ok |-> FALSE, record |-> <<>>, err |-> v.err, validated |-> called]
      ELSE [ok |-> TRUE, record |-> r.record, err |-> NoErr, validated |-> called]

\* Variant: a slot that is already set is kept.
setter_keep_first(s, i, value) ==
  IF s[i] = None THEN [s EXCEPT ![i] = value] ELSE s

\* The generated setter body: new.field = Some(value).
setter(s, i, value) == [s EXCEPT ![i] = value]

\* Variant: the slot is cleared before the conversion is tried.
try_setter_clear_first(s, i, x) ==
  LET c == TryInto(x)
  IN  IF c.ok THEN [ok |-> TRUE, state |-> [s EXCEPT ![i] = c.value], err |-> NoErr]
      ELSE [ok |-> FALSE, state |-> [s EXCEPT ![i] = None], err |-> ConversionErr]

\* The generated fallible setter body: convert first, store on success.
try_setter(s, i, x) ==
  LET c == TryInto(x)
  IN  IF c.ok THEN [ok |-> TRUE, state |-> setter(s, i, c.value), err |-> NoErr]
      ELSE [ok |-> FALSE, state |-> s, err |-> ConversionErr]

NoCall == [op |-> "none", field |-> 0, arg |-> None, old |-> None,
           repeat |-> FALSE, ok |-> TRUE, record |-> <<>>, err |-> NoErr,
           validated |-> FALSE]

(***************************************************************************)
(* Schemas                                                                 *)
(***************************************************************************)

Schema(body, attrs, vfn, fattrs) ==
  [body |-> body, attrs |-> attrs, validate |-> vfn,
   fields |-> [i \in Fields |-> [ident |-> i, attrs |-> fattrs[i]]]]

\* The field-level directive sets the runtime specification draws from.
FieldKinds ==
  { NoDirectives,
    [NoDirectives EXCEPT !.default = "42"],
    [NoDirectives EXCEPT !.default = "delegate"],
    [NoDirectives EXCEPT !.default = "helper"],
    [NoDirectives EXCEPT !.skip = "true"],
    [NoDirectives EXCEPT !.skip = "true", !.default = "42"],
    [NoDirectives EXCEPT !.skip = "true", !.default = "helper"],
    [NoDirectives EXCEPT !.try_setter = "true"] }

\* The struct-level directive sets: a pattern or none.
StructKinds ==
  { [NoDirectives EXCEPT !.pattern = p] : p \in {Unset} \cup AxisValues("pattern") }

\* Field k carries the directives `kind`, the other fields none.
OneAnnotated(k, kind) == [i \in Fields |-> IF i = k THEN kind ELSE NoDirectives]

\* Field k carries `kind` and another field j a default that may fail.
WithHelper(k, kind, j) ==
  [i \in Fields |-> IF i = k THEN kind
                    ELSE IF i = j THEN [NoDirectives EXCEPT !.default = "helper"]
                    ELSE NoDirectives]

\* The structs of the runtime specification: any pattern, any validator,
\* one annotated field; plain structs with a second field whose default
\* may fail; and a tuple struct, which has no named fields.
RuntimeSchemas ==
  { Schema("Struct", sk, vfn, OneAnnotated(k, kind)) :
      sk \in StructKinds, vfn \in {Unset} \cup ValidateFns,
      k \in Fields, kind \in FieldKinds }
  \cup { Schema("Struct", NoDirectives, Unset, WithHelper(k, kind, j)) :
           k \in Fields, kind \in FieldKinds, j \in Fields }
  \cup { Schema("Tuple", NoDirectives, Unset, OneAnnotated(1, NoDirectives)) }


(***************************************************************************)
(* Actions                                                                 *)
(***************************************************************************)

\* #[derive(Builder)] runs builder_for_struct; a body that is no braced
\* struct panics.  The caller then starts from FooBuilder::default().
Derive ==
  /\ pc = "parsed"
  /\ IF ast.body = "Struct"
       THEN LET out == builder_for_struct(ast)
            IN  /\ pc' = "derived"
                /\ builder' = out.builder
                /\ f_opts' = out.f_opts
                /\ alive' = TRUE
       ELSE /\ pc' = "panicked"
            /\ UNCHANGED <<builder, f_opts, alive>>
  /\ UNCHANGED <<ast, slots, res>>

\* builder.field(value)
Setter(i, value) ==
  /\ pc = "derived" /\ alive
  /\ builder.setters[i].enabled
  /\ slots' = setter(slots, i, value)
  /\ res' = [NoCall EXCEPT !.op = "set", !.field = i, !.arg = value,
                           !.old = slots[i]]
  /\ UNCHANGED <<ast, pc, f_opts, builder, alive>>

\* builder.try_field(x): under the owned pattern the receiver was moved
\* into the call, and a failed conversion does not give it back.
TrySetter(i, x) ==
  /\ pc = "derived" /\ alive
  /\ builder.setters[i].enabled /\ builder.setters[i].try_setter
  /\ LET r == try_setter(slots, i, x)
     IN  /\ slots' = r.state
         /\ res' = [NoCall EXCEPT !.op = "try", !.field = i, !.arg = x,
                                  !.old = slots[i], !.ok = r.ok, !.err = r.err]
         /\ alive' = (r.ok \/ builder.setters[i].pattern # "owned")
  /\ UNCHANGED <<ast, pc, f_opts, builder>>

\* Variant: build moves the values out of the slots (Option::take).
Build_take ==
  /\ pc = "derived" /\ alive
  /\ LET r == build(builder.build_fn, slots)
     IN  res' = [NoCall EXCEPT !.op = "build", !.repeat = (res.op = "build"),
                               !.ok = r.ok, !.record = r.record, !.err = r.err,
                               !.validated = r.validated]
  /\ alive' = (builder.build_fn.pattern # "owned")
  /\ slots' = [i \in Fields |-> None]
  /\ UNCHANGED <<ast, pc, f_opts, builder>>

\* builder.build(): consumes the receiver under the owned pattern.
Build ==
  /\ pc = "derived" /\ alive
  /\ LET r == build(builder.build_fn, slots)
     IN  res' = [NoCall EXCEPT !.op = "build", !.repeat = (res.op = "build"),
                               !.ok = r.ok, !.record = r.record, !.err = r.err,
                               !.validated = r.validated]
  /\ alive' = (builder.build_fn.pattern # "owned")
  /\ UNCHANGED <<ast, pc, f_opts, builder, slots>>

Init ==
  /\ ast \in RuntimeSchemas
  /\ pc = "parsed"
  /\ f_opts = <<>>
  /\ builder = NoBuilder
  /\ slots = [i \in Fields |-> None]
  /\ alive = FALSE
  /\ res = NoCall

Next ==
  \/ Derive
  \/ \E i \in Fields, value \in Values : Setter(i, value)
  \/ \E i \in Fields, x \in TryInputs : TrySetter(i, x)
  \/ Build

Spec == Init /\ [][Next]_vars

(***************************************************************************)
(* The resolution specification: the directives are written one at a time  *)
(* on a bare struct, on the struct itself or on one of its fields, and     *)
(* the derive then runs on whatever was written.                           *)
(***************************************************************************)

DirectiveCount(a) ==
  Cardinality({ax \in Axes : a.attrs[ax] # Unset})
  + Cardinality({p \in Fields \X Axes : a.fields[p[1]].attrs[p[2]] # Unset})

\* #[builder(...)] preceding the struct.
AnnotateStruct(ax, val) ==
  /\ pc = "parsed"
  /\ DirectiveCount(ast) < MaxDirectives
  /\ ast.attrs[ax] = Unset
  /\ ast' = [ast EXCEPT !.attrs[ax] = val]
  /\ UNCHANGED <<pc, f_opts, builder, slots, alive, res>>

\* #[builder(...)] preceding field i.
AnnotateField(i, ax, val) ==
  /\ pc = "parsed"
  /\ DirectiveCount(ast) < MaxDirectives
  /\ ast.fields[i].attrs[ax] = Unset
  /\ ast' = [ast EXCEPT !.fields[i].attrs[ax] = val]
  /\ UNCHANGED <<pc, f_opts, builder, slots, alive, res>>

InitResolve ==
  /\ ast = Schema("Struct", NoDirectives, Unset, OneAnnotated(1, NoDirectives))
  /\ pc = "parsed"
  /\ f_opts = <<>>
  /\ builder = NoBuilder
  /\ slots = [i \in Fields |-> None]
  /\ alive = FALSE
  /\ res = NoCall

NextResolve ==
  \/ \E ax \in Axes : \E val \in AxisValues(ax) : AnnotateStruct(ax, val)
  \/ \E i \in Fields, ax \in Axes : \E val \in AxisValues(ax) : AnnotateField(i, ax, val)
  \/ Derive

SpecResolve == InitResolve /\ [][NextResolve]_vars

(***************************************************************************)
(* Properties                                                              *)
(***************************************************************************)

Derived == pc = "derived"
Built == Derived /\ res.op = "build"
Unsets == {i \in Fields : slots[i] = None}
MinOf(S) == CHOOSE i \in S : \A j \in S : i <= j
\* Every field is required: it has a setter and no default.
AllRequired == \A i \in Fields : f_opts[i].default = "none" /\ f_opts[i].skip = "false"
Required(i) == f_opts[i].default = "none" /\ f_opts[i].skip = "false"
NoValidator == builder.build_fn.validate = Unset
\* The validator, if one is configured, accepts the builder state.
ValidatorAccepts == validate(builder.build_fn.validate, slots).ok
AllSettable == \A i \in Fields : builder.setters[i].enabled

\* C1 as stated: on a struct whose fields are all required, build returns
\* Ok iff every slot is set, and otherwise the missing-field error of the
\* first unset field.
C1_AsStated ==
  (Built /\ AllRequired) =>
    /\ res.ok <=> (Unsets = {})
    /\ Unsets # {} => res.err = MissingField(MinOf(Unsets))

\* C1, amended: the same on a struct that configures no validator.
C1_FirstMissingField ==
  (Built /\ AllRequired /\ NoValidator) =>
    /\ res.ok <=> (Unsets = {})
    /\ Unsets # {} => res.err = MissingField(MinOf(Unsets))

\* Two fields are unset, a third is set, and build named the earlier one.
C1_Witness ==
  /\ Built /\ AllRequired /\ NoValidator
  /\ \E i, j, k \in Fields :
       /\ i < j /\ slots[i] = None /\ slots[j] = None /\ slots[k] # None
       /\ res.err = MissingField(i)

\* C2 as stated: once every field's setter was called, build returns the
\* struct made of the values set.
C2_AsStated ==
  (Built /\ AllSettable /\ Unsets = {}) =>
    /\ res.ok
    /\ Len(res.record) = NumFields
    /\ \A i \in Fields : res.record[i] = slots[i]

\* C2, amended: the same when the validator, if any, accepts the state.
C2_RoundTrip ==
  (Built /\ AllSettable /\ Unsets = {} /\ ValidatorAccepts) =>
    /\ res.ok
    /\ Len(res.record) = NumFields
    /\ \A i \in Fields : res.record[i] = slots[i]

\* Every field was set, not all to the same value, and build returned them.
C2_Witness ==
  /\ Built /\ AllSettable /\ Unsets = {} /\ res.ok
  /\ \E i, j \in Fields : slots[i] # slots[j]
  /\ \E i \in Fields : f_opts[i].default # "none"
  /\ \A i \in Fields : res.record[i] = slots[i]

\* C3: a setter call leaves the slot at the value just passed whatever the
\* slot held before, so setter(v) then setter(w) then build is setter(w)
\* then build.
C3_LastWriteWins ==
  [][(res'.op = "set") =>
       LET after == [slots EXCEPT ![res'.field] = res'.arg]
       IN  /\ slots' = after
           /\ slots'[res'.field] = res'.arg
           /\ build(builder'.build_fn, slots') = build(builder.build_fn, after)]_vars

\* A slot that held v was set to w and holds w.
C3_Witness ==
  /\ Derived /\ res.op = "set"
  /\ res.old \in Values /\ res.old # res.arg
  /\ slots[res.field] = res.arg

\* C4: with a validator that always fails build never returns Ok, and
\* when every initializer succeeds the error is the validator's own.
C4_ValidatorShortCircuit ==
  (Built /\ builder.build_fn.validate = "always_fail") =>
    /\ ~res.ok
    /\ res.record = <<>>
    /\ initialize(builder.build_fn.initializers, slots, <<>>).ok
         => res.err = ValidationErr("always fails")

\* Every field was set and build returned the validator's error.
C4_Witness ==
  /\ Built /\ builder.build_fn.validate = "always_fail"
  /\ Unsets = {}
  /\ res.err = ValidationErr("always fails")

\* The axes C5 names.
C5Axes == {"pattern", "skip", "prefix", "into", "vis", "default"}
\* Field-level directive, else struct-level directive, else built-in.
Precedence(i, ax) ==
  IF ast.fields[i].attrs[ax] # Unset THEN ast.fields[i].attrs[ax]
  ELSE IF ast.attrs[ax] # Unset THEN ast.attrs[ax]
  ELSE BuiltinDefaults[ax]

\* C5: on every axis the resolved option of a field is its own directive,
\* else the struct's, else the built-in default, and the artifact carries
\* the resolved options.
C5_Precedence ==
  Derived =>
    \A i \in Fields :
      /\ \A ax \in C5Axes : f_opts[i][ax] = Precedence(i, ax)
      /\ builder.setters[i].enabled = (Precedence(i, "skip") = "false")
      /\ builder.setters[i].pattern = Precedence(i, "pattern")
      /\ builder.setters[i].prefix = Precedence(i, "prefix")
      /\ builder.setters[i].vis = Precedence(i, "vis")
      /\ builder.setters[i].generic = (Precedence(i, "into") = "true")
      /\ builder.build_fn.initializers[i].default = Precedence(i, "default")

\* A field and the struct disagree on an axis and the field's value holds.
C5_Witness ==
  /\ Derived
  /\ \E i \in Fields, ax \in C5Axes :
       /\ ast.fields[i].attrs[ax] # Unset /\ ast.attrs[ax] # Unset
       /\ ast.fields[i].attrs[ax] # ast.attrs[ax]
       /\ f_opts[i][ax] = ast.fields[i].attrs[ax]

SkippedWithDefault(i) == f_opts[i].skip = "true" /\ f_opts[i].default # "none"
OthersSet(i) == \A j \in Fields \ {i} : Required(j) => slots[j] # None
\* What the default directive of field i yields on the current state.
ResolvedDefault(i) ==
  IF f_opts[i].default = "delegate"
    THEN [ok |-> TRUE, value |-> TypeDefault, err |-> NoErr]
  ELSE EvalDefault(f_opts[i].default, slots)

\* Every default expression build evaluates on the current state succeeds.
DefaultsEvaluate ==
  \A j \in Fields :
    (f_opts[j].default # "none" /\ (slots[j] = None \/ f_opts[j].skip = "true"))
      => ResolvedDefault(j).ok

\* C6 as stated: a skipped field with a default has no setter, and build
\* with every other required field set succeeds with the default.
C6_AsStated ==
  Derived =>
    \A i \in Fields : SkippedWithDefault(i) =>
      /\ ~builder.setters[i].enabled
      /\ (Built /\ OthersSet(i)) =>
           (res.ok /\ res.record[i] = ResolvedDefault(i).value)

\* C6, amended: the same when no default expression that build evaluates
\* fails and the validator, if any, accepts the state.
C6_SkipWithDefault ==
  Derived =>
    \A i \in Fields : SkippedWithDefault(i) =>
      /\ ~builder.setters[i].enabled
      /\ slots[i] = None
      /\ (Built /\ OthersSet(i) /\ DefaultsEvaluate /\ ValidatorAccepts) =>
           (res.ok /\ res.record[i] = ResolvedDefault(i).value)

\* build succeeded on a struct with a skipped field and put the explicit
\* default there.
C6_Witness ==
  /\ Built /\ res.ok
  /\ \E i \in Fields :
       /\ SkippedWithDefault(i) /\ slots[i] = None
       /\ res.record[i] = "42"

SkippedNoDefault(i) ==
  /\ Precedence(i, "skip") = "true"
  /\ ast.fields[i].attrs["default"] = Unset /\ ast.attrs["default"] = Unset

\* C7 as stated: a struct with a skipped field that has no default at
\* either level yields no artifact.
C7_AsStated ==
  (ast.body = "Struct" /\ \E i \in Fields : SkippedNoDefault(i)) => ~Derived

\* C7, amended: such a field is accepted; the artifact has its storage
\* field and no setter for it, and build gives it Default::default(),
\* succeeding when the other required fields are set, no default
\* expression fails and the validator, if any, accepts.
C7_SkipUsesTypeDefault ==
  Derived =>
    \A i \in Fields : SkippedNoDefault(i) =>
      /\ builder.fields[i].ident = i
      /\ ~builder.setters[i].enabled
      /\ slots[i] = None
      /\ (Built /\ res.ok) => res.record[i] = TypeDefault
      /\ (Built /\ OthersSet(i) /\ DefaultsEvaluate /\ ValidatorAccepts) => res.ok

\* build succeeded on a struct with a skipped field without a default.
C7_Witness ==
  /\ Built /\ res.ok
  /\ \E i \in Fields : SkippedNoDefault(i) /\ res.record[i] = TypeDefault

\* C8: a fallible setter whose conversion fails returns the conversion
\* error and writes no slot; one whose conversion succeeds writes the
\* converted value to its own slot and no other.
C8_TrySetterFrame ==
  [][(res'.op = "try") =>
       LET c == TryInto(res'.arg)
       IN  /\ res'.ok = c.ok
           /\ ~c.ok => (slots' = slots /\ res'.err = ConversionErr)
           /\ c.ok => slots' = [slots EXCEPT ![res'.field] = c.value]]_vars

\* A fallible setter failed on a slot that was set, and the slot kept
\* its value.
C8_Witness ==
  /\ Derived /\ res.op = "try" /\ ~res.ok
  /\ res.old \in Values
  /\ slots[res.field] = res.old

\* C9: unless the pattern is owned, build leaves the builder as it was
\* and a second build in a row returns what the first returned; under the
\* owned pattern build consumes the builder and no call follows.
C9_PatternConformance ==
  /\ [][(res'.op = "build" /\ builder.build_fn.pattern # "owned") =>
          /\ slots' = slots /\ alive' = alive
          /\ res.op = "build" =>
               (res'.ok = res.ok /\ res'.record = res.record /\ res'.err = res.err)]_vars
  /\ [](Built /\ builder.build_fn.pattern = "owned" => ~alive)
  /\ [][(Derived /\ ~alive) => UNCHANGED vars]_vars

\* build ran twice in a row on a borrowed builder and succeeded.
C9_Witness ==
  /\ Built /\ res.repeat /\ res.ok /\ alive
  /\ builder.build_fn.pattern \in {"mutable", "immutable"}

\* C10 as stated: every setter has the pattern of the build method.
C10_AsStated ==
  Derived =>
    \A i \in Fields : builder.setters[i].pattern = builder.build_fn.pattern

\* The struct's own pattern: its directive, or mutable.
StructPattern ==
  IF ast.attrs["pattern"] # Unset THEN ast.attrs["pattern"] ELSE "mutable"

\* C10, amended: build has the struct's pattern; a setter has its field's
\* pattern directive when one is written and the struct's pattern
\* otherwise.
C10_PatternPerField ==
  Derived =>
    /\ builder.build_fn.pattern = StructPattern
    /\ builder.pattern = StructPattern
    /\ \A i \in Fields :
         builder.setters[i].pattern =
           IF ast.fields[i].attrs["pattern"] # Unset
             THEN ast.fields[i].attrs["pattern"]
           ELSE StructPattern

\* Two setters of one builder have different patterns.
C10_Witness ==
  /\ Derived
  /\ \E i, j \in Fields :
       /\ builder.setters[i].enabled /\ builder.setters[j].enabled
       /\ builder.setters[i].pattern # builder.setters[j].pattern

\* The first field whose initializer fails on the current state, if any.
FailingInits ==
  {i \in Fields : ~eval_initializer(builder.build_fn.initializers[i], slots).ok}
UnsetRequired == {i \in Fields : Required(i) /\ slots[i] = None}

====
